---- MODULE Spec2Model ----
(***************************************************************************)
(* Model of the time logger of src/time_log.py: the Record value, the      *)
(* RecordSet state machine (start, stop, reset, restart, add), the         *)
(* aggregation generate_stats and the Record codec (serialize /            *)
(* deserialize).                                                           *)
(*                                                                         *)
(* A datetime is an integer number of time units, a tag is a sequence of   *)
(* one-character strings, a tag set is a set of such sequences, and the    *)
(* Python None of Record.ts_stop is the value None below.                  *)
(***************************************************************************)
EXTENDS Integers, Sequences, FiniteSets, TLC

\* Largest reading of the wall clock, and largest timestamp of a record.
MaxTime == 2

\* Largest number of records the set is grown to.
MaxRecs == 3

\* Python's None, as the value of Record.ts_stop: no datetime equals it.
None == 0 - 1

Times == 0 .. MaxTime

\* The tag labels: "x" and "yy".
X == <<"x">>
Y == <<"y", "y">>
Labels == {X, Y}
TagSets == SUBSET Labels

\* The exceptions an operation of the RecordSet ends with ("none": it returned).
NoError == "none"
IllegalOperation == "IllegalOperation"
IndexError == "IndexError"

VARIABLES
    _recs,      \* RecordSet._recs: the sequence of records
    _marker,    \* RecordSet._marker: len(recs) at construction
    _tags,      \* RecordSet._tags: the set-level tag index
    clock,      \* the latest reading of datetime.now()
    op,         \* the operation that ran last ("load": the construction)
    raised,     \* the exception the last operation ended with
    utcoffset,  \* the offset of local time from UTC, in time units
    record,     \* codec: the Record that is serialized
    fields,     \* codec: the tuple serialize returned
    decoded,    \* codec: the Record deserialize returned
    cpc,        \* codec: "idle", "record", "fields", "done" or "failed"
    file,       \* run: the rows of the day's file
    git,        \* run: cfg.get('git.enabled') of the run
    stage,      \* run: how far the run of main got ("idle": no run)
    pushed,     \* run: the run attempted git add / commit / push
    summary,    \* report: the stats format_stats is given
    report      \* report: the rows format_stats hands to the table

setVars == <<_recs, _marker, _tags, clock, op, raised>>
codecVars == <<utcoffset, record, fields, decoded, cpc>>
runVars == <<file, git, stage, pushed>>
formatVars == <<summary, report>>
vars == <<setVars, codecVars, runVars, formatVars>>

----------------------------------------------------------------------------
\* Record

Record(ts_start, ts_stop, tags) ==
    [ts_start |-> ts_start, ts_stop |-> ts_stop, tags |-> tags]

\* Record.duration with the difference the other way round.
duration_Reversed(r) ==
    IF r.ts_stop = None THEN 0 ELSE r.ts_start - r.ts_stop

\* Record.duration
duration(r) ==
    IF r.ts_stop = None THEN 0 ELSE r.ts_stop - r.ts_start

\* Record.closed without the start == stop case: a record is closed as soon
\* as it has a stop.
Record_closed_NoTie(r) ==
    ~(r.ts_stop = None)

\* Record.closed
Record_closed(r) ==
    ~(r.ts_stop = None \/ r.ts_start = r.ts_stop)

----------------------------------------------------------------------------
\* The Record codec. A str is a sequence of one-character strings.

\* datetime.timestamp() of a naive local datetime: the epoch seconds
timestamp(dt, offset) == dt - offset

\* datetime.fromtimestamp(x): the naive local datetime of epoch seconds x
fromtimestamp(x, offset) == x + offset

\* The text of a timestamp field that float() cannot parse (a numeric text is
\* the number it stands for).
NotANumber == 0 - 99

\* float(x) of a number
float(x) == x

\* sep.join(strs)
RECURSIVE join(_, _)
join(sep, strs) ==
    IF Len(strs) = 0 THEN <<>>
    ELSE IF Len(strs) = 1 THEN strs[1]
    ELSE strs[1] \o sep \o join(sep, Tail(strs))

\* s.split(sep), sep one character: "" splits into [""]
RECURSIVE split(_, _)
split(s, sep) ==
    IF \A i \in DOMAIN s : s[i] # sep
    THEN <<s>>
    ELSE LET k == CHOOSE i \in DOMAIN s :
                      s[i] = sep /\ \A j \in 1 .. i - 1 : s[j] # sep
         IN  <<SubSeq(s, 1, k - 1)>> \o split(SubSeq(s, k + 1, Len(s)), sep)

\* set(z) of a list z
set(z) == {z[i] : i \in DOMAIN z}

\* The orders in which iterating over the set S may yield its elements.
Orders(S) ==
    {f \in [1 .. Cardinality(S) -> S] :
        \A i, j \in 1 .. Cardinality(S) : i # j => f[i] # f[j]}

\* Record.deserialize(*args)
deserialize(args, offset) ==
    IF Len(args) # 3
    THEN [raised |-> "Exception"]
    ELSE IF args[1] = NotANumber \/ args[2] = NotANumber
    THEN [raised |-> "ValueError"]
    ELSE [raised |-> NoError,
          value  |-> Record(fromtimestamp(float(args[1]), offset),
                            fromtimestamp(float(args[2]), offset),
                            set(split(args[3], " ")))]

\* Record.serialize(), with order the iteration order of self.tags
serialize(r, order, offset) ==
    <<timestamp(r.ts_start, offset),
      timestamp(r.ts_stop, offset),
      join(<<" ">>, order)>>

----------------------------------------------------------------------------
\* RecordSet: the object is the record [recs, marker, tags]

\* RecordSet.__init__
RecordSet(recs) ==
    [recs   |-> recs,
     marker |-> Len(recs),
     tags   |-> UNION {recs[i].tags : i \in DOMAIN recs}]

\* RecordSet.empty
empty(recs) == Len(recs) = 0

\* RecordSet.closed
closed(recs) == empty(recs) \/ Record_closed(recs[Len(recs)])

\* RecordSet.size
size(recs) == Len(recs)

\* The outcome of an operation: the object afterwards and the exception raised.
Outcome(recs, marker, tags, exc) ==
    [recs |-> recs, marker |-> marker, tags |-> tags, raised |-> exc]

Raise(self, exc) == Outcome(self.recs, self.marker, self.tags, exc)

\* list.pop()
Pop(recs) == SubSeq(recs, 1, Len(recs) - 1)

\* RecordSet.start_rec with a record that has no stop yet.
start_rec_NoStop(self, tags, ts) ==
    IF ~closed(self.recs)
    THEN Raise(self, IllegalOperation)
    ELSE Outcome(Append(self.recs, Record(ts, None, tags)),
                 self.marker, self.tags \cup tags, NoError)

\* RecordSet.start_rec, with ts the reading of datetime.now()
start_rec(self, tags, ts) ==
    IF ~closed(self.recs)
    THEN Raise(self, IllegalOperation)
    ELSE Outcome(Append(self.recs, Record(ts, ts, tags)),
                 self.marker, self.tags \cup tags, NoError)

\* RecordSet.stop_rec that stamps the start of the last record.
stop_rec_StampsStart(self, ts) ==
    IF closed(self.recs)
    THEN Raise(self, IllegalOperation)
    ELSE Outcome([self.recs EXCEPT ![Len(self.recs)].ts_start = ts],
                 self.marker, self.tags, NoError)

\* RecordSet.stop_rec, with ts the reading of datetime.now()
stop_rec(self, ts) ==
    IF closed(self.recs)
    THEN Raise(self, IllegalOperation)
    ELSE Outcome([self.recs EXCEPT ![Len(self.recs)].ts_stop = ts],
                 self.marker, self.tags, NoError)

\* RecordSet.reset_rec without the check of closed: list.pop() of an empty
\* list raises IndexError.
reset_rec_NoCheck(self) ==
    IF Len(self.recs) = 0
    THEN Raise(self, IndexError)
    ELSE Outcome(Pop(self.recs), self.marker, self.tags, NoError)

\* RecordSet.reset_rec that builds the tag index anew from the records left.
reset_rec_Reindex(self) ==
    IF closed(self.recs)
    THEN Raise(self, IllegalOperation)
    ELSE Outcome(Pop(self.recs), self.marker,
                 RecordSet(Pop(self.recs)).tags, NoError)

\* RecordSet.reset_rec
reset_rec(self) ==
    IF closed(self.recs)
    THEN Raise(self, IllegalOperation)
    ELSE Outcome(Pop(self.recs), self.marker, self.tags, NoError)

\* RecordSet.restart_rec: self._recs[-1] of an empty list raises IndexError
restart_rec(self, ts) ==
    IF Len(self.recs) = 0
    THEN Raise(self, IndexError)
    ELSE LET tags == self.recs[Len(self.recs)].tags
             afterReset == reset_rec(self)
         IN  IF afterReset.raised # NoError
             THEN afterReset
             ELSE start_rec(afterReset, tags, ts)

\* RecordSet.add_rec without the swap: the record is always appended.
add_rec_Append(self, _from, _to, tags) ==
    Outcome(Append(self.recs, Record(_from, _to, tags)),
            self.marker, self.tags, NoError)

\* RecordSet.add_rec
add_rec(self, _from, _to, tags) ==
    LET rec == Record(_from, _to, tags) IN
    IF ~closed(self.recs)
    THEN LET curr == self.recs[Len(self.recs)] IN
         Outcome(Append(Append(Pop(self.recs), rec), curr),
                 self.marker, self.tags, NoError)
    ELSE Outcome(Append(self.recs, rec), self.marker, self.tags, NoError)

\* sum(map(duration, recs)) over the records of recs[1..n] that carry tag t
RECURSIVE SumTagged(_, _, _)
SumTagged(recs, t, n) ==
    IF n = 0 THEN 0
    ELSE SumTagged(recs, t, n - 1)
         + (IF t \in recs[n].tags THEN duration(recs[n]) ELSE 0)

\* RecordSet.generate_stats with the duration of a record split evenly
\* between its tags.
generate_stats_Split(self) ==
    [t \in self.tags |->
        SumTagged([i \in DOMAIN self.recs |->
                      [self.recs[i] EXCEPT
                          !.ts_stop = self.recs[i].ts_start
                              + (duration(self.recs[i])
                                   \div Cardinality(self.recs[i].tags \cup {t}))]],
                  t, Len(self.recs))]

\* RecordSet.generate_stats: the dict summary, keyed by the tags of the index
generate_stats(self) ==
    [t \in self.tags |-> SumTagged(self.recs, t, Len(self.recs))]

\* RecordSet.get_all
get_all(self) == self.recs

\* RecordSet.get_new
get_new(self) == SubSeq(self.recs, self.marker + 1, Len(self.recs))

----------------------------------------------------------------------------
\* The state machine: one RecordSet, one wall clock

Self == [recs |-> _recs, marker |-> _marker, tags |-> _tags]

Commit(out, name) ==
    /\ _recs' = out.recs
    /\ _marker' = out.marker
    /\ _tags' = out.tags
    /\ raised' = out.raised
    /\ op' = name
    /\ UNCHANGED <<codecVars, runVars, formatVars>>

\* The value of record and decoded while no Record is there.
NoRecord == Record(None, None, {})

\* The arguments of add(from, to, tags) that are tried: two closed intervals
\* and one with from == to.
AddArgs == {<<0, 2, {X}>>, <<0, 1, {X, Y}>>, <<1, 1, {Y}>>}

\* The records a RecordSet is constructed from: what read_recs may have loaded.
LoadRecords == {Record(a[1], a[2], a[3]) : a \in AddArgs}

\* The open-last invariant of a sequence of records.
OpenLast(recs) == \A i \in 1 .. Len(recs) - 1 : Record_closed(recs[i])

Init ==
    /\ \E recs \in {<<>>} \cup {<<r>> : r \in LoadRecords} :
          /\ OpenLast(recs)
          /\ _recs = RecordSet(recs).recs
          /\ _marker = RecordSet(recs).marker
          /\ _tags = RecordSet(recs).tags
    /\ clock \in Times
    /\ op = "load"
    /\ raised = NoError
    /\ utcoffset = 0
    /\ record = NoRecord
    /\ fields = <<>>
    /\ decoded = NoRecord
    /\ cpc = "idle"
    /\ file = <<>>
    /\ git = FALSE
    /\ stage = "idle"
    /\ pushed = FALSE
    /\ summary = <<>>
    /\ report = <<>>

\* start(tags): the clock is read only when the record is appended.
Start ==
    \E tags \in TagSets, ts \in clock .. MaxTime :
        LET out == start_rec(Self, tags, ts) IN
        /\ Len(out.recs) <= MaxRecs
        /\ Commit(out, "start")
        /\ clock' = IF out.raised = NoError THEN ts ELSE clock

Stop ==
    \E ts \in clock .. MaxTime :
        LET out == stop_rec(Self, ts) IN
        /\ Commit(out, "stop")
        /\ clock' = IF out.raised = NoError THEN ts ELSE clock

Reset ==
    /\ Commit(reset_rec(Self), "reset")
    /\ UNCHANGED clock

Restart ==
    \E ts \in clock .. MaxTime :
        LET out == restart_rec(Self, ts) IN
        /\ Commit(out, "restart")
        /\ clock' = IF out.raised = NoError THEN ts ELSE clock

Add ==
    \E a \in AddArgs :
        LET out == add_rec(Self, a[1], a[2], a[3]) IN
        /\ Len(out.recs) <= MaxRecs
        /\ Commit(out, "add")
        /\ UNCHANGED clock

Next == Start \/ Stop \/ Reset \/ Restart \/ Add

Spec == Init /\ [][Next]_vars

\* The RecordSet without add: a set loaded with up to two records, then
\* start, stop, reset and restart only.
InitNoAdd ==
    /\ \E recs \in {<<>>} \cup {<<r>> : r \in LoadRecords}
                       \cup {<<r, q>> : r \in LoadRecords, q \in LoadRecords} :
          /\ _recs = RecordSet(recs).recs
          /\ _marker = RecordSet(recs).marker
          /\ _tags = RecordSet(recs).tags
    /\ clock \in Times
    /\ op = "load"
    /\ raised = NoError
    /\ utcoffset = 0
    /\ record = NoRecord
    /\ fields = <<>>
    /\ decoded = NoRecord
    /\ cpc = "idle"
    /\ file = <<>>
    /\ git = FALSE
    /\ stage = "idle"
    /\ pushed = FALSE
    /\ summary = <<>>
    /\ report = <<>>

NextNoAdd == Start \/ Stop \/ Reset \/ Restart

SpecNoAdd == InitNoAdd /\ [][NextNoAdd]_vars

----------------------------------------------------------------------------
\* The codec on its own: one Record is serialized, the tuple is deserialized

Offsets == {0 - 1, 0, 1}

CodecRecords ==
    {Record(s, t, g) : s \in Times, t \in Times \cup {None}, g \in TagSets}

InitCodec ==
    /\ _recs = <<>>
    /\ _marker = 0
    /\ _tags = {}
    /\ clock = 0
    /\ op = "load"
    /\ raised = NoError
    /\ utcoffset \in Offsets
    /\ record \in CodecRecords
    /\ fields = <<>>
    /\ decoded = NoRecord
    /\ cpc = "record"
    /\ file = <<>>
    /\ git = FALSE
    /\ stage = "idle"
    /\ pushed = FALSE
    /\ summary = <<>>
    /\ report = <<>>

\* r.serialize(): self.ts_stop.timestamp() of None raises AttributeError
Serialize ==
    /\ cpc = "record"
    /\ IF record.ts_stop = None
       THEN /\ cpc' = "failed"
            /\ UNCHANGED fields
       ELSE \E order \in Orders(record.tags) :
               /\ fields' = serialize(record, order, utcoffset)
               /\ cpc' = "fields"
    /\ UNCHANGED <<setVars, runVars, formatVars, utcoffset, record, decoded>>

\* Record.deserialize(*fields)
Deserialize ==
    /\ cpc = "fields"
    /\ LET out == deserialize(fields, utcoffset) IN
       IF out.raised = NoError
       THEN decoded' = out.value /\ cpc' = "done"
       ELSE UNCHANGED decoded /\ cpc' = "failed"
    /\ UNCHANGED <<setVars, runVars, formatVars, utcoffset, record, fields>>

NextCodec == Serialize \/ Deserialize

SpecCodec == InitCodec /\ [][NextCodec]_vars

----------------------------------------------------------------------------
\* The vocabulary of the properties, in the words of the specification

\* A record is open: its stop is absent or equals its start.
RecOpen(r) == r.ts_stop = None \/ r.ts_stop = r.ts_start

\* The set is Open: non-empty, last record not closed.
SetOpen(recs) == Len(recs) > 0 /\ RecOpen(recs[Len(recs)])

Last(recs) == recs[Len(recs)]

\* The record sequence, the tag index and the marker are left as they were.
SetUnchanged == _recs' = _recs /\ _tags' = _tags /\ _marker' = _marker

\* The sequence recs without its k-th element.
Without(recs, k) == SubSeq(recs, 1, k - 1) \o SubSeq(recs, k + 1, Len(recs))

\* The sum of f over the set S of record indices.
RECURSIVE SumOver(_, _)
SumOver(S, recs) ==
    IF S = {} THEN 0
    ELSE LET i == CHOOSE j \in S : TRUE
         IN  (IF recs[i].ts_stop = None THEN 0
              ELSE recs[i].ts_stop - recs[i].ts_start)
             + SumOver(S \ {i}, recs)

\* The total duration of the records of recs that carry tag t.
TotalOf(recs, t) == SumOver({i \in DOMAIN recs : t \in recs[i].tags}, recs)

----------------------------------------------------------------------------
\* The properties

\* C1: in every reachable state every record other than the last is closed
\* (stop present and stop # start); only the last record may be open.
C1_OnlyLastOpen ==
    \A i \in 1 .. Len(_recs) - 1 : ~RecOpen(_recs[i])

C3_StopResetOnClosedFail ==
    [][(op' \in {"stop", "reset"} /\ ~SetOpen(_recs))
          => (raised' = IllegalOperation /\ SetUnchanged)]_vars

\* C3 happens: a reset has failed on a Closed, non-empty set.
C3_Witness ==
    /\ op = "reset"
    /\ raised = IllegalOperation
    /\ Len(_recs) > 0
    /\ ~SetOpen(_recs)

\* C4: on an Empty or Closed set start succeeds and the set is then not
\* closed; a stop issued next succeeds and the set is then closed, whatever
\* the two clock readings (an equal reading included).
C4_StartThenStopCloses ==
    [][/\ (op' = "start" /\ ~SetOpen(_recs))
            => (raised' = NoError /\ SetOpen(_recs'))
       /\ (op = "start" /\ raised = NoError /\ op' = "stop")
            => (raised' = NoError /\ ~SetOpen(_recs'))]_vars

\* C5: restart on an Open set (whose open record does not start after the
\* clock's latest reading) succeeds and leaves the set Open with as many
\* records as before, the last carrying the tags of the previous open record,
\* start = stop = the fresh now(), a start not before the previous one, and
\* the records before the last unchanged.
C5_RestartOnOpen ==
    [][(op' = "restart" /\ SetOpen(_recs) /\ Last(_recs).ts_start <= clock)
          => /\ raised' = NoError
             /\ SetOpen(_recs')
             /\ Len(_recs') = Len(_recs)
             /\ Last(_recs').tags = Last(_recs).tags
             /\ Last(_recs').ts_start = clock'
             /\ Last(_recs').ts_stop = clock'
             /\ Last(_recs').ts_start >= Last(_recs).ts_start
             /\ Pop(_recs') = Pop(_recs)]_vars

\* C6: restart on an Empty or Closed set fails with IllegalOperation, and
\* with no other error, and leaves the state unchanged.
C6_RestartOnClosedFails ==
    [][(op' = "restart" /\ ~SetOpen(_recs))
          => (raised' = IllegalOperation /\ SetUnchanged)]_vars

\* C7: add never fails, makes the sequence one longer and keeps the order of
\* the records there were; on an Open set the new record is placed right
\* before the open record, which stays last and unmodified, and on an Empty
\* or Closed set the new record is appended last.
C7_AddPlacement ==
    [][op' = "add"
          => /\ raised' = NoError
             /\ Len(_recs') = Len(_recs) + 1
             /\ IF SetOpen(_recs)
                THEN /\ Last(_recs') = Last(_recs)
                     /\ Without(_recs', Len(_recs)) = _recs
                     /\ \E a \in AddArgs :
                           _recs'[Len(_recs)] = Record(a[1], a[2], a[3])
                ELSE /\ Without(_recs', Len(_recs) + 1) = _recs
                     /\ \E a \in AddArgs :
                           Last(_recs') = Record(a[1], a[2], a[3])]_vars

\* C7 happens: an add has put a closed record between a closed record and
\* the open one (which no add has made: it is not a record of AddArgs).
C7_Witness ==
    /\ op = "add"
    /\ raised = NoError
    /\ Len(_recs) = 3
    /\ ~RecOpen(_recs[1])
    /\ ~RecOpen(_recs[2])
    /\ _recs[2] # _recs[1]
    /\ RecOpen(_recs[3])
    /\ \A a \in AddArgs : _recs[3] # Record(a[1], a[2], a[3])

\* C8: the tag index contains every tag carried by a record of the set, so
\* generate_stats() has an entry for every such tag.
C8_IndexCoversRecords ==
    \A i \in DOMAIN _recs :
        /\ _recs[i].tags \subseteq _tags
        /\ _recs[i].tags \subseteq DOMAIN generate_stats(Self)

\* C9, as stated: every value of generate_stats() is the total duration of
\* the records carrying its key, counted in full under each tag, and a set
\* with no records or no tags yields an empty mapping.
C9_StatsAsStated ==
    LET stats == generate_stats(Self) IN
    /\ \A t \in DOMAIN stats : stats[t] = TotalOf(_recs, t)
    /\ (Len(_recs) = 0 \/ _tags = {}) => DOMAIN stats = {}

\* C9, amended: every value of generate_stats() is the total duration of the
\* records carrying its key, counted in full under each tag (the records
\* (0,2,{x}) and (0,1,{x,yy}) give x: 3 and yy: 1); a set whose tag index is
\* empty yields an empty mapping, and a set with no records yields the total
\* 0 for every tag of its index.
C9_StatsSums ==
    LET stats == generate_stats(Self) IN
    /\ DOMAIN stats = _tags
    /\ \A t \in DOMAIN stats : stats[t] = TotalOf(_recs, t)
    /\ _tags = {} => DOMAIN stats = {}
    /\ Len(_recs) = 0 => \A t \in DOMAIN stats : stats[t] = 0
    /\ (_recs = <<Record(0, 2, {X}), Record(0, 1, {X, Y})>> /\ _tags = {X, Y})
          => stats = (X :> 3 @@ Y :> 1)

\* C9 happens: the set holds the two records of the example and both tags
\* are keys of the statistics.
C9_Witness ==
    /\ _recs = <<Record(0, 2, {X}), Record(0, 1, {X, Y})>>
    /\ DOMAIN generate_stats(Self) = {X, Y}

\* C10: for every Record with both timestamps present, and any tag set,
\* deserialize of the fields serialize produced yields a Record with the
\* same start, the same stop and the same tag set.
C10_RoundTrip ==
    cpc = "done"
        => /\ decoded.ts_start = record.ts_start
           /\ decoded.ts_stop = record.ts_stop
           /\ decoded.tags = record.tags

\* The pieces of the str s between single spaces (and its two ends).
Pieces(s) ==
    {SubSeq(s, i, j) : <<i, j>> \in
        {<<i, j>> \in (1 .. Len(s) + 1) \X (0 .. Len(s)) :
            /\ i - 1 <= j
            /\ i = 1 \/ s[i - 1] = " "
            /\ j = Len(s) \/ s[j + 1] = " "
            /\ \A k \in i .. j : s[k] # " "}}

\* The tag set a tag field stands for: its pieces, and no label when the
\* field is empty.
LabelsOf(s) == IF s = <<>> THEN {} ELSE Pieces(s)

\* C11: decoding splits the tag field on single spaces into a set of labels,
\* and an empty tag field decodes to an empty tag set (no empty label).
C11_DecodeTagField ==
    cpc = "done" => decoded.tags = LabelsOf(fields[3])

----------------------------------------------------------------------------
\* main: one run loads the day's file, applies one command and writes the file

READ_ACCESS == {"stats"}

\* WRITE_ACCESS with stats in it: every command has write access.
WRITE_ACCESS_All == {"add", "reset", "restart", "start", "stats", "stop"}

WRITE_ACCESS == {"add", "reset", "restart", "start", "stop"}

\* args.tags.split(',') of the default "default": the list ['default']. As a
\* collection of tags the one-element list is the set of its element; it
\* differs from a set in self._tags |= tags, which raises TypeError.
DefaultTag == <<"d">>
DefaultTags == {DefaultTag}

\* read_recs without the checks: an invalid row is skipped.
RECURSIVE read_recs_Skip(_, _)
read_recs_Skip(rows, offset) ==
    IF Len(rows) = 0
    THEN [raised |-> NoError, value |-> <<>>]
    ELSE LET rest == read_recs_Skip(Tail(rows), offset)
             rec == IF Len(Head(rows)) # 3
                    THEN [raised |-> "Exception"]
                    ELSE deserialize(Head(rows), offset)
         IN  IF rec.raised # NoError
             THEN rest
             ELSE [raised |-> NoError, value |-> <<rec.value>> \o rest.value]

\* read_recs: the rows of the file, in order, up to the first invalid one
RECURSIVE read_recs(_, _)
read_recs(rows, offset) ==
    IF Len(rows) = 0
    THEN [raised |-> NoError, value |-> <<>>]
    ELSE IF Len(Head(rows)) # 3
    THEN [raised |-> "Exception", value |-> <<>>]
    ELSE LET rec == deserialize(Head(rows), offset) IN
         IF rec.raised # NoError
         THEN [raised |-> rec.raised, value |-> <<>>]
         ELSE LET rest == read_recs(Tail(rows), offset) IN
              IF rest.raised # NoError
              THEN rest
              ELSE [raised |-> NoError, value |-> <<rec.value>> \o rest.value]

\* [r.serialize() for r in recs.get_all()]: the lists of rows it may give,
\* one for every iteration order of the tag sets
RECURSIVE serialize_all(_, _)
serialize_all(recs, offset) ==
    IF Len(recs) = 0
    THEN {<<>>}
    ELSE {<<row>> \o rest :
             row \in {serialize(Head(recs), order, offset) :
                         order \in Orders(Head(recs).tags)},
             rest \in serialize_all(Tail(recs), offset)}

\* The ways write_recs may end: it returns, open() fails, or an I/O error
\* comes after the file was opened (and truncated) and some rows got written.
WriteOutcomes == {"ok", "open fails", "write fails"}

\* write_recs(rows, path), ending as outcome says, written the number of
\* rows that reached the file before a failing write: the rows of the file
write_recs(rows, old, outcome, written) ==
    IF outcome = "ok" THEN rows
    ELSE IF outcome = "open fails" THEN old
    ELSE SubSeq(rows, 1, written)

\* The ways subprocess.run of git ends in shell(): it returns (with or
\* without output on stderr), or raises TimeoutExpired after 7 s, or raises
\* FileNotFoundError when git cannot be launched.
ShellOutcomes == {"ok", "stderr", "timeout", "cannot launch"}

\* shell(*args, cwd): the exception it ends with
shell(outcome) ==
    IF outcome = "timeout" THEN "TimeoutExpired"
    ELSE IF outcome = "cannot launch" THEN "FileNotFoundError"
    ELSE NoError

\* RecordSet.start_rec called with the list main passes: the record is
\* appended and self._tags |= tags raises TypeError
start_rec_list(self, tags, ts) ==
    IF ~closed(self.recs)
    THEN Raise(self, IllegalOperation)
    ELSE Outcome(Append(self.recs, Record(ts, ts, tags)),
                 self.marker, self.tags, "TypeError")

\* main, the try block: the command cmd on the loaded set; a -t option makes
\* args.tags a list, whose split raises AttributeError
command(self, cmd, _from, _to, tagsGiven, now) ==
    IF tagsGiven THEN Raise(self, "AttributeError")
    ELSE IF cmd = "add" THEN add_rec(self, _from, _to, DefaultTags)
    ELSE IF cmd = "reset" THEN reset_rec(self)
    ELSE IF cmd = "restart" THEN restart_rec(self, now)
    ELSE IF cmd = "start" THEN start_rec_list(self, DefaultTags, now)
    ELSE IF cmd = "stop" THEN stop_rec(self, now)
    ELSE Raise(self, NoError)

\* The --from / --to arguments the runs of main are given.
RunArgs == {a \in AddArgs : a[2] <= 1}

\* main with an except clause that only logs: no exception makes it return.
returns_Never(exc) == FALSE

\* main, except IllegalOperation ... return: the exceptions of the command
\* that make main return
returns(exc) == exc = IllegalOperation

\* The end of a run: the rows of the file, the exception that ended main, the
\* stage it reached and whether the push was attempted.
End(rows, exc, reached, push) ==
    /\ file' = rows
    /\ raised' = exc
    /\ stage' = reached
    /\ pushed' = push

\* main, from the write on: the rows are written and, with sync, pushed
WriteAndPush(recs, hasWrite) ==
    IF ~hasWrite
    THEN End(file, NoError, "read only", FALSE)
    ELSE \E rows \in serialize_all(recs, utcoffset) :
            \E write \in WriteOutcomes :
               \E written \in IF write = "write fails"
                              THEN 0 .. Len(rows) ELSE {0} :
                  LET reached == IF write = "ok"
                                 THEN "written" ELSE "write failed"
                      after == write_recs(rows, file, write, written)
                  IN  IF git'
                      THEN \E pushOutcome \in ShellOutcomes :
                              End(after, shell(pushOutcome), reached, TRUE)
                      ELSE End(after, NoError, reached, FALSE)

\* main, from the load on: the file is read, the command applied
LoadAndRun(cmd, now) ==
    LET loaded == read_recs(file, utcoffset) IN
    IF loaded.raised # NoError
    THEN End(file, loaded.raised, "load", FALSE)
    ELSE \E tagsGiven \in BOOLEAN :
            \E a \in IF cmd = "add" /\ ~tagsGiven
                     THEN RunArgs ELSE {<<0, 0, {}>>} :
               LET out == command(RecordSet(loaded.value), cmd, a[1], a[2],
                                  tagsGiven, now)
               IN  IF out.raised \notin {NoError, IllegalOperation}
                   THEN End(file, out.raised, "command", FALSE)
                   ELSE IF returns(out.raised)
                   THEN End(file, out.raised, "command", FALSE)
                   ELSE /\ Len(out.recs) <= MaxRecs
                        /\ WriteAndPush(out.recs, cmd \in WRITE_ACCESS)

\* main: one run with the command cmd at the time now
Main(cmd) ==
    \E now \in clock .. MaxTime, sync \in BOOLEAN :
        /\ stage = "idle"
        /\ clock' = now
        /\ op' = cmd
        /\ git' = sync
        /\ UNCHANGED <<_recs, _marker, _tags, codecVars, formatVars>>
        /\ IF sync
           THEN \E pull \in ShellOutcomes :
                   IF shell(pull) # NoError
                   THEN End(file, shell(pull), "pull", FALSE)
                   ELSE LoadAndRun(cmd, now)
           ELSE LoadAndRun(cmd, now)

MainAdd == Main("add")
MainReset == Main("reset")
MainRestart == Main("restart")
MainStart == Main("start")
MainStats == Main("stats")
MainStop == Main("stop")

\* The process of the run ends: of its state only the file is left.
Exit ==
    /\ stage # "idle"
    /\ stage' = "idle"
    /\ op' = "load"
    /\ raised' = NoError
    /\ git' = FALSE
    /\ pushed' = FALSE
    /\ UNCHANGED <<_recs, _marker, _tags, clock, codecVars, file, formatVars>>

\* The rows of the records recs, the tags in the order given.
RowsOf(recs, offset) ==
    [i \in DOMAIN recs |->
        <<timestamp(recs[i][1], offset), timestamp(recs[i][2], offset), recs[i][3]>>]

\* The files a first run may find: empty, closed records, a last record that
\* is open, an empty tag field, and rows that do not parse.
InitFiles(offset) ==
    {RowsOf(recs, offset) : recs \in
        {<<>>,
         <<<<0, 2, X>>>>,
         <<<<0, 2, X>>, <<0, 1, X \o <<" ">> \o Y>>>>,
         <<<<0, 2, X>>, <<1, 1, Y>>>>,
         <<<<1, 1, Y>>>>,
         <<<<0, 1, <<>>>>>>}}
    \cup {<<<<0, 1>>>>,
          <<<<NotANumber, 1, X>>>>,
          RowsOf(<<<<0, 2, X>>>>, offset) \o <<<<0, NotANumber, Y>>, <<0>>>>,
          RowsOf(<<<<0, 2, X>>>>, offset) \o <<<<0, 1, X, Y>>, <<NotANumber, 1, X>>>>}

InitRun ==
    /\ _recs = <<>>
    /\ _marker = 0
    /\ _tags = {}
    /\ clock \in Times
    /\ op = "load"
    /\ raised = NoError
    /\ utcoffset = 1
    /\ record = NoRecord
    /\ fields = <<>>
    /\ decoded = NoRecord
    /\ cpc = "idle"
    /\ file \in InitFiles(utcoffset)
    /\ git = FALSE
    /\ stage = "idle"
    /\ pushed = FALSE
    /\ summary = <<>>
    /\ report = <<>>

NextRun ==
    \/ MainAdd \/ MainReset \/ MainRestart \/ MainStart \/ MainStats
    \/ MainStop \/ Exit

SpecRun == InitRun /\ [][NextRun]_vars

----------------------------------------------------------------------------
\* format_stats: the rows of the report. A value of the Time (H) column is a
\* number of hundredths of an hour (1.5 is 150).

SecondsPerHour == 3600
SecondsPerDay == 24 * SecondsPerHour

\* The seconds that make a hundredth of an hour, the last of the 2 decimals.
Hundredth == SecondsPerHour \div 100

\* ord(c) of the characters of the labels
ord(c) == CASE c = "d" -> 100 [] c = "x" -> 120 [] c = "y" -> 121

\* a < b of two str
RECURSIVE Less(_, _)
Less(a, b) ==
    IF Len(a) = 0 THEN Len(b) > 0
    ELSE IF Len(b) = 0 THEN FALSE
    ELSE IF a[1] = b[1] THEN Less(Tail(a), Tail(b))
    ELSE ord(a[1]) < ord(b[1])

\* tags.sort() of the list of the keys S
sort(S) ==
    CHOOSE f \in Orders(S) :
        \A i, j \in DOMAIN f : i < j => Less(f[i], f[j])

\* timedelta(seconds=s).seconds: the seconds within the day, the days are
\* another attribute
seconds(s) == s % SecondsPerDay

\* round(s / 3600, 2), in hundredths: the nearest one; s / 3600 is a float,
\* so that halfway between two hundredths either may be the nearest
round(s) ==
    {h \in {s \div Hundredth, s \div Hundredth + 1} :
        /\ h * Hundredth - s <= Hundredth \div 2
        /\ s - h * Hundredth <= Hundredth \div 2}

\* format_stats(workdate, stats): the lists of rows it may give the table
format_stats(stats) ==
    LET tags == sort(DOMAIN stats) IN
    IF Len(tags) = 0
    THEN {<<<<None, None>>>>}
    ELSE {[i \in DOMAIN tags |-> <<tags[i], vals[i]>>] :
             vals \in {v \in [DOMAIN tags ->
                                UNION {round(seconds(stats[t])) : t \in DOMAIN stats}] :
                          \A i \in DOMAIN tags :
                              v[i] \in round(seconds(stats[tags[i]]))}}

\* The labels and the totals of the stats that are formatted: "x", "xy" and
\* "yy"; no time, half a minute (halfway between two hundredths), half an
\* hour, an hour and a half, a second less than a day, a day, 25 hours.
FormatLabels == {X, <<"x", "y">>, Y}
Totals == {0, 18, 1800, 5400, 86399, 86400, 90000}

InitFormat ==
    /\ _recs = <<>>
    /\ _marker = 0
    /\ _tags = {}
    /\ clock = 0
    /\ op = "load"
    /\ raised = NoError
    /\ utcoffset = 0
    /\ record = NoRecord
    /\ fields = <<>>
    /\ decoded = NoRecord
    /\ cpc = "idle"
    /\ file = <<>>
    /\ git = FALSE
    /\ stage = "idle"
    /\ pushed = FALSE
    /\ summary \in UNION {[S -> Totals] : S \in SUBSET FormatLabels}
    /\ report = <<>>

Format ==
    /\ report = <<>>
    /\ report' \in format_stats(summary)
    /\ UNCHANGED <<setVars, codecVars, runVars, summary>>

NextFormat == Format

SpecFormat == InitFormat /\ [][NextFormat]_vars

\* C20: the report has one row per tag of the stats, the tags in
\* lexicographic order, the value of a row the total of its tag in hours
\* rounded to 2 decimals (a hundredth at most half a hundredth away),
\* whatever the total; {x: 5400} gives the one row x | 1.5; stats without a
\* tag give one placeholder row.
C20_FormatRows ==
    report # <<>>
        => IF DOMAIN summary = {}
           THEN report = <<<<None, None>>>>
           ELSE /\ Len(report) = Cardinality(DOMAIN summary)
                /\ {report[i][1] : i \in DOMAIN report} = DOMAIN summary
                /\ \A i, j \in DOMAIN report :
                       i < j => Less(report[i][1], report[j][1])
                /\ \A i \in DOMAIN report :
                       LET total == summary[report[i][1]] IN
                       /\ report[i][2] * Hundredth - total <= Hundredth \div 2
                       /\ total - report[i][2] * Hundredth <= Hundredth \div 2
                /\ DOMAIN summary = {X} /\ summary[X] = 5400
                       => report = <<<<X, 150>>>>

----------------------------------------------------------------------------
\* The properties of the runs

\* What loading the rows of a file gives.
Loaded(rows) == read_recs(rows, utcoffset)

\* A step is a run of main that got its command from a command line without
\* a tag option, in an environment where git pull returned and the write of
\* the file, where there was one, returned.
PlainRun ==
    /\ stage = "idle"
    /\ stage' \notin {"idle", "pull", "write failed"}
    /\ raised' # "AttributeError"

\* C12: from a file that loads to n closed records a run of start leaves a
\* file that loads to these n records followed by one open record started at
\* the time of the run; from a file that loads to closed records followed by
\* an open one a run of stop at a strictly later time leaves a file that
\* loads to the same records, all closed, the last stopped at the time of
\* the run.
C12_StartStopAcrossRuns ==
    [][LET old == Loaded(file)
           new == Loaded(file')
       IN  /\ (/\ PlainRun
               /\ op' = "start"
               /\ old.raised = NoError
               /\ \A i \in DOMAIN old.value : ~RecOpen(old.value[i]))
               => /\ new.raised = NoError
                  /\ Len(new.value) = Len(old.value) + 1
                  /\ Pop(new.value) = old.value
                  /\ RecOpen(Last(new.value))
                  /\ Last(new.value).ts_start = clock'
           /\ (/\ PlainRun
               /\ op' = "stop"
               /\ old.raised = NoError
               /\ SetOpen(old.value)
               /\ \A i \in 1 .. Len(old.value) - 1 : ~RecOpen(old.value[i])
               /\ clock' > Last(old.value).ts_start)
               => /\ new.raised = NoError
                  /\ Len(new.value) = Len(old.value)
                  /\ Pop(new.value) = Pop(old.value)
                  /\ Last(new.value).ts_start = Last(old.value).ts_start
                  /\ Last(new.value).tags = Last(old.value).tags
                  /\ Last(new.value).ts_stop = clock'
                  /\ ~RecOpen(Last(new.value))]_vars

\* The exception the command cmd raises on the records the rows load to.
CommandRaises(rows, cmd, now) ==
    command(RecordSet(Loaded(rows).value), cmd, 0, 0, FALSE, now).raised

Malformed(row) ==
    Len(row) # 3 \/ row[1] = NotANumber \/ row[2] = NotANumber

\* The first row of rows that does not parse.
FirstMalformed(rows) ==
    rows[CHOOSE i \in DOMAIN rows :
            Malformed(rows[i]) /\ \A j \in 1 .. i - 1 : ~Malformed(rows[j])]

\* C14: a run on a file with a row whose field count is not 3 or whose first
\* or second field is not numeric does not get past the load: the load fails
\* with the error of the first such row, no command is applied, the rows of
\* the file stay and nothing is pushed.
C14_MalformedAborts ==
    [][(/\ stage = "idle"
        /\ stage' # "idle"
        /\ \E i \in DOMAIN file : Malformed(file[i]))
          => /\ stage' \in {"pull", "load"}
             /\ file' = file
             /\ ~pushed'
             /\ stage' = "load"
                   => raised' = (IF Len(FirstMalformed(file)) # 3
                                 THEN "Exception" ELSE "ValueError")]_vars

\* C14 happens: the load has failed on a file whose first row parses, whose
\* second has a non-numeric field and whose third has one field.
C14_Witness ==
    /\ stage = "load"
    /\ raised = "ValueError"
    /\ Len(file) = 3
    /\ ~Malformed(file[1])
    /\ Len(file[3]) # 3

\* C15: when the write of the file fails, the rows of the file are those of
\* before the run.
C15_WriteAllOrNothing ==
    [][stage' = "write failed" => file' = file]_vars

\* C16: with sync enabled, however git pull ends, the run gets to load the
\* file.
C16_PullNeverPrevents ==
    [][(stage = "idle" /\ git') => stage' # "pull"]_vars

\* C17: the push is attempted only in a run of a mutating command, after the
\* command returned and its records were written to the file.
C17_PushOnlyAfterWrite ==
    [][pushed' => (git' /\ op' \in WRITE_ACCESS /\ stage' = "written")]_vars

C22_StopResetFrame ==
    [][/\ (op' = "stop" /\ raised' = NoError)
            => /\ Len(_recs') = Len(_recs)
               /\ Len(_recs) > 0
               /\ Last(_recs').ts_stop = clock'
               /\ Last(_recs').ts_start = Last(_recs).ts_start
               /\ Last(_recs').tags = Last(_recs).tags
               /\ Pop(_recs') = Pop(_recs)
               /\ _tags' = _tags
               /\ _marker' = _marker
       /\ (op' = "reset" /\ raised' = NoError)
            => /\ Len(_recs) > 0
               /\ _recs' = Pop(_recs)
               /\ _marker' = _marker
               /\ (\A i \in 1 .. Len(_recs) - 1 : ~RecOpen(_recs[i]))
                     => ~SetOpen(_recs')]_vars

\* C22 happens: a stop has succeeded at a later reading of the clock on a set
\* of several records.
C22_Witness ==
    /\ op = "stop"
    /\ raised = NoError
    /\ Len(_recs) > 1
    /\ Last(_recs).ts_stop = clock
    /\ Last(_recs).ts_stop > Last(_recs).ts_start

\* C23 as stated: every record has duration >= 0, an open record has duration
\* 0 and every value of generate_stats() is >= 0, whatever the loaded records
\* (stop >= start) and the first reading of the clock.
C23_DurationsAsStated ==
    /\ \A i \in DOMAIN _recs :
          /\ duration(_recs[i]) >= 0
          /\ RecOpen(_recs[i]) => duration(_recs[i]) = 0
    /\ \A t \in DOMAIN generate_stats(Self) : generate_stats(Self)[t] >= 0

\* No record starts after the latest reading of the clock.
StartedInPast == \A i \in DOMAIN _recs : _recs[i].ts_start <= clock

\* C23: when no loaded record starts after the first reading of the clock,
\* then after any sequence of start, stop, reset and restart every record has
\* duration >= 0, an open record has duration 0 and every value of
\* generate_stats() is >= 0.
C23_DurationsLoadedInPast ==
    StartedInPast => []C23_DurationsAsStated

\* C23 happens: a record started after the load was stopped at a later
\* reading of the clock, and its tags have a positive total.
C23_Witness ==
    /\ op = "stop"
    /\ raised = NoError
    /\ StartedInPast
    /\ Len(_recs) > _marker
    /\ _marker > 0
    /\ duration(Last(_recs)) > 0
    /\ \A t \in Last(_recs).tags : generate_stats(Self)[t] > 0

\* C24: no operation removes a tag from the tag index or changes the marker;
\* after a start with the tags T followed by a reset or a restart every tag
\* of T is a key of generate_stats(), with the total 0 when no record of the
\* set carries it.
C24_IndexNeverShrinks ==
    [][/\ _tags \subseteq _tags'
       /\ _marker' = _marker
       /\ (/\ op = "start" /\ raised = NoError
           /\ op' \in {"reset", "restart"} /\ raised' = NoError)
            => \A t \in Last(_recs).tags :
                  /\ t \in DOMAIN generate_stats(Self')
                  /\ (\A i \in DOMAIN _recs' : t \notin _recs'[i].tags)
                        => generate_stats(Self')[t] = 0]_vars

\* C24 happens: after a reset the tag index holds a tag that no record of the
\* set carries.
C24_Witness ==
    /\ op = "reset"
    /\ raised = NoError
    /\ \E t \in _tags : \A i \in DOMAIN _recs : t \notin _recs[i].tags

\* C18: after the first command on a loaded set get_new() is the list of the
\* records that were not there at the load: the one record a start, a restart
\* or an add has put in, and no record otherwise.
C18_GetNewIsAdded ==
    [][op = "load"
        => IF raised' # NoError \/ op' \in {"stop", "reset"}
           THEN get_new(Self') = <<>>
           ELSE IF op' = "restart"
           THEN get_new(Self') = <<Last(_recs')>>
           ELSE \E k \in DOMAIN _recs' :
                   /\ Without(_recs', k) = _recs
                   /\ get_new(Self') = <<_recs'[k]>>]_vars

\* C19: every record of the set has a stop timestamp.
C19_StopPresent ==
    \A i \in DOMAIN _recs : _recs[i].ts_stop # None

\* C19 happens: a start has succeeded, its record is the last of the set.
C19_Witness ==
    /\ op = "start"
    /\ raised = NoError
    /\ Len(_recs) > _marker
    /\ Last(_recs).ts_stop = Last(_recs).ts_start

====
